---- MODULE Spec2Model ----
(***************************************************************************)
(* Model of the experiment pipelines of function-space-gradient-flow:     *)
(* experiments/uci/main.py (main), experiments/loaders.py and the         *)
(* TemperGP wrapper exercised by tests/test_temper_gp.py.                 *)
(*                                                                         *)
(* The disk (the *.pth files and the results directory) outlives a run of *)
(* main; everything else is the memory of one run.  Tensors and kernels   *)
(* are objects on a heap and are referred to by their identity, so that   *)
(* deepcopy and pass-by-reference are different things.                   *)
(***************************************************************************)
EXTENDS Integers, Sequences, FiniteSets, TLC

\* ------------------------------------------------------------------ bounds
\* rows of the dataset csv
DatasetSize == 4
\* data_config["train_data_percentage"] values a run may be started with
DataConfigs == {50, 75}
\* induce_data_config["induce_data_factor"], ["induce_data_power"]
InduceDataFactors == {0, 1, 2}
InduceDataPowers == {1, 2}
\* values float(likelihood.noise) of the averaged likelihood may take
LikelihoodNoises == {1, 2}
\* values of the validation NLL of one observation-noise candidate
MaxNll == 1

\* ----------------------------------------------------------- configuration
\* pwgf_config["observation_noise_lower"], ["observation_noise_upper"],
\* ["number_of_observation_noise_searches"], ["number_of_particles"]
observation_noise_lower == 1
observation_noise_upper == 3
number_of_searches == 3
number_of_particles == 2
\* kernel_config["seed"], induce_data_config["seed"], pwgf_config["seed"],
\* svgp_config["seed"]
kernel_seed == 10
induce_seed == 11
pwgf_seed == 12
svgp_seed == 13

\* hyperparameters of a freshly constructed ScaleKernel(RBFKernel(...)),
\* of the averaged ARD kernel, and of a kernel after svGP training
InitialHyp == 1
AverageHyp == 5
LearnedHyp == 7
\* observation noise of the learned svGP's likelihood after training
LearnedNoise == 4
\* hyperparameters of the kernel optimise_kernel_and_induce_data fitted
FittedHyp == 6

\* ------------------------------------------------------------------- state
VARIABLES
    \* the disk
    experiment_data_file, induce_data_file, pwgf_file, fixed_svgp_file,
    svgp_file, svgp_pwgf_file, results,
    \* the configuration and the data-dependent outcomes, fixed over all runs
    config, likelihood_noise, nll,
    \* one run of main
    pc, data_config, kheap, xheap, experiment_data, average_ard_kernel,
    induce_data, likelihood, pwgf, fixed_svgp_model, svgp_model, svgp_pwgf,
    rng,
    \* history
    trace, written, metrics_run, aborted_at, split_calls, select_calls,
    optimised, searched, saved_stages, first,
    \* a TemperGP and the distribution its last call returned
    temper_gp, prediction,
    \* one call of train_projected_wasserstein_gradient_flow
    number_of_epochs, epoch, train_pc, update_magnitudes,
    \* the curves main: the model of optimise_kernel_and_induce_data and its
    \* results files
    fitted_model, curves_results,
    \* history: the kernel handed to each model's stage in this run
    received

disk == <<experiment_data_file, induce_data_file, pwgf_file, fixed_svgp_file,
          svgp_file, svgp_pwgf_file, results>>
world == <<config, likelihood_noise, nll>>
memory == <<data_config, kheap, xheap, experiment_data, average_ard_kernel,
            induce_data, likelihood, pwgf, fixed_svgp_model, svgp_model,
            svgp_pwgf, rng>>
history == <<trace, written, metrics_run, aborted_at, split_calls,
             select_calls, optimised, searched, saved_stages, first>>
temper == <<temper_gp, prediction>>
training == <<number_of_epochs, epoch, train_pc, update_magnitudes>>
curves == <<fitted_model, curves_results>>
vars == <<disk, world, temper, training, curves, received, pc, memory,
          history>>

ModelNames == {"pwgf", "fixed-svgp", "svgp", "pwgf-svgp"}

\* ------------------------------------------------------------ empty values
NoData == [cfg |-> 0, n |-> 0]
NoParticles == [rows |-> 0, cols |-> 0, val |-> 0]
NoPWGF == [kernel |-> 0, x_induce |-> 0, observation_noise |-> 0,
           particles |-> NoParticles]
NoSVGP == [kernel |-> 0, x_induce |-> 0, noise |-> 0]
NoRng == [seed |-> 0, used |-> 0]
NoDataFile == [exists |-> FALSE, cfg |-> 0, n |-> 0]
NoInduceFile == [exists |-> FALSE, n |-> 0, loc |-> 0]
NoPWGFFile == [exists |-> FALSE, particles |-> NoParticles,
               observation_noise |-> 0]
NoSVGPFile == [exists |-> FALSE, hyp |-> 0, n |-> 0, loc |-> 0, noise |-> 0]
NoResult == [written |-> FALSE, observation_noise |-> 0, val |-> 0,
             seed |-> 0, used |-> 0]
NoModel == [kernel |-> 0, noise |-> 0, gp_scheme |-> ""]
\* no kernel was handed over; otherwise: whether the argument was a deepcopy,
\* the object it was copied from or is (0: constructed in the call), and its
\* hyperparameters at the call
NoKernel == [given |-> FALSE, copy |-> FALSE, source |-> 0, hyp |-> 0]
NoFirst == [seen |-> FALSE, cfg |-> 0, particles |-> NoParticles,
            observation_noise |-> 0]

NoTemperGP == [constructed |-> FALSE, gp |-> [m |-> 0, s |-> 0],
               x_calibration |-> <<>>, y_calibration |-> <<>>, scale |-> 0]
NoPrediction == [valid |-> FALSE, x |-> <<>>, mean |-> <<>>,
                 covariance_matrix |-> <<>>]

Min(a, b) == IF a <= b THEN a ELSE b

\* --------------------------------------------------------------- helpers
\* int(math.sqrt(k)) for the small k of the model
RECURSIVE IsqrtFrom(_, _)
IsqrtFrom(k, r) == IF (r + 1) * (r + 1) > k THEN r ELSE IsqrtFrom(k, r + 1)
Isqrt(k) == IsqrtFrom(k, 0)

\* int(induce_data_factor * math.pow(N, 1 / induce_data_power))
NumberInducePoints(n, factor, power) ==
    IF power = 1 THEN factor * n ELSE Isqrt(factor * factor * n)

\* the count main passes to the selector for a train split of n rows
InduceCount(n) ==
    NumberInducePoints(n, config.induce_data_factor, config.induce_data_power)

\* set_up_experiment: the size of the train split
TrainSize(percentage) == (percentage * DatasetSize) \div 100

\* the heap: deepcopy and construction allocate a new object
KAlloc(hyp) == Append(kheap, hyp)
KNew == Len(kheap) + 1
XAlloc(x) == Append(xheap, x)
XNew == Len(xheap) + 1

\* set_seed(seed); a stochastic stage then draws from the generator
SetSeed(seed) == [seed |-> seed, used |-> 0]
Draw(r) == [r EXCEPT !.used = Min(r.used + 1, 3)]

Abort(stage) ==
    /\ pc' = "aborted"
    /\ aborted_at' = stage

\* ----------------------------------------------------- runners (not main)
\* select_induce_data with ConditionalVarianceInduceDataSelector: m rows of
\* the pool of n rows, the full pool when m >= n
Select(n, m) == [n |-> Min(m, n), loc |-> 0]
\* a non-positive inducing-point count is an invalid-configuration error
SelectFails(m) == m <= 0

\* the i-th candidate of the observation-noise grid
Candidate(i) ==
    observation_noise_lower
    + (i * (observation_noise_upper - observation_noise_lower))
      \div (number_of_searches - 1)
Candidates == {Candidate(i) : i \in 0..(number_of_searches - 1)}

\* pwgf_observation_noise_search: the candidate of least validation NLL,
\* the smaller one on a tie
pwgf_observation_noise_search(f) ==
    CHOOSE c \in Candidates :
        \A d \in Candidates : f[c] < f[d] \/ (f[c] = f[d] /\ c <= d)

\* ProjectedWassersteinGradientFlow(...): one particle row per induce and
\* train point, one column per particle
InitialParticles(n_induce, n_train, cols, seed) ==
    [rows |-> n_induce + n_train, cols |-> cols, val |-> seed]

\* ---------------------------------------------------------------- loaders
\* load_projected_wasserstein_gradient_flow: model_config is the bundle read
\* by torch.load(model_path)
load_projected_wasserstein_gradient_flow(model_config, base_kernel, observation_noise, induce) ==
    [kernel |-> base_kernel,
     x_induce |-> induce,
     observation_noise |-> observation_noise,
     particles |-> model_config.particles]

\* load_svgp: the svGP is constructed on the kernel it is given and on its
\* own copy of x_induce, then load_state_dict overwrites their values
load_svgp(state, kernel, x) ==
    [kernel |-> kernel, x_induce |-> x, noise |-> state.noise]

\* train_svgp: the state of the trained model.  A fixed svGP keeps kernel
\* and inducing locations and takes the observation noise it is given, a
\* learned one optimises all three
train_svgp(hyp, x, is_fixed, observation_noise) ==
    IF is_fixed
    THEN [hyp |-> hyp, n |-> x.n, loc |-> x.loc, noise |-> observation_noise]
    ELSE [hyp |-> LearnedHyp, n |-> x.n, loc |-> x.loc + 1,
          noise |-> LearnedNoise]

\* model.state_dict() of an svGP
StateDict(model) ==
    [exists |-> TRUE, hyp |-> kheap[model.kernel],
     n |-> xheap[model.x_induce].n, loc |-> xheap[model.x_induce].loc,
     noise |-> model.noise]

\* calculate_metrics(model, model_name, ...): the entry written to
\* results_path for an svGP
SVGPMetrics(model) ==
    [written |-> TRUE, observation_noise |-> model.noise,
     val |-> kheap[model.kernel], seed |-> rng.seed, used |-> rng.used]

\* -------------------------------------------------------------------- Init
InitDisk ==
    /\ experiment_data_file = NoDataFile
    /\ induce_data_file = NoInduceFile
    /\ pwgf_file = NoPWGFFile
    /\ fixed_svgp_file = NoSVGPFile
    /\ svgp_file = NoSVGPFile
    /\ svgp_pwgf_file = NoPWGFFile
    /\ results = [m \in ModelNames |-> NoResult]

InitWorld ==
    /\ config \in [induce_data_factor : InduceDataFactors,
                   induce_data_power : InduceDataPowers]
    /\ likelihood_noise \in LikelihoodNoises
    /\ nll \in [observation_noise_lower..observation_noise_upper -> 0..MaxNll]

InitMemory ==
    /\ data_config = 0
    /\ kheap = <<>>
    /\ xheap = <<>>
    /\ experiment_data = NoData
    /\ average_ard_kernel = 0
    /\ induce_data = 0
    /\ likelihood = 0
    /\ pwgf = NoPWGF
    /\ fixed_svgp_model = NoSVGP
    /\ svgp_model = NoSVGP
    /\ svgp_pwgf = NoPWGF
    /\ rng = NoRng

InitRun == pc = "idle" /\ InitMemory

InitHistory ==
    /\ trace = <<>>
    /\ written = {}
    /\ metrics_run = {}
    /\ aborted_at = ""
    /\ split_calls = 0
    /\ select_calls = 0
    /\ optimised = {}
    /\ searched = {}
    /\ saved_stages = [m \in {"pwgf", "pwgf-svgp"} |->
                          [optimised |-> FALSE, searched |-> FALSE]]
    /\ first = NoFirst

InitTemper ==
    /\ temper_gp = NoTemperGP
    /\ prediction = NoPrediction

InitCurves ==
    /\ fitted_model = NoModel
    /\ curves_results = [m \in ModelNames |-> NoResult]

InitReceived == received = [m \in ModelNames |-> NoKernel]

\* no training call is in progress
InitTraining ==
    /\ number_of_epochs = 0
    /\ epoch = 0
    /\ train_pc = "off"
    /\ update_magnitudes = <<>>

Init ==
    /\ InitDisk /\ InitWorld /\ InitRun /\ InitHistory /\ InitTemper
    /\ InitTraining /\ InitCurves /\ InitReceived

\* ------------------------------------------------------------ a run of main
\* python -m experiments.uci.main --config_path ... : a new process
StartRun ==
    /\ pc = "idle"
    /\ pc' = "data"
    /\ data_config' \in DataConfigs
    /\ trace' = <<>>
    /\ written' = {}
    /\ metrics_run' = {}
    /\ aborted_at' = ""
    /\ optimised' = {}
    /\ searched' = {}
    /\ received' = [m \in ModelNames |-> NoKernel]
    /\ UNCHANGED <<disk, world, temper, training, curves, kheap, xheap,
                   experiment_data,
                   average_ard_kernel, induce_data, likelihood, pwgf,
                   fixed_svgp_model, svgp_model, svgp_pwgf, rng,
                   split_calls, select_calls, saved_stages, first>>

\* the process ends (main returned, or an exception left it): its memory is
\* gone, the disk stays
EndRun ==
    /\ pc \in {"done", "aborted"}
    /\ pc' = "idle"
    /\ data_config' = 0
    /\ kheap' = <<>>
    /\ xheap' = <<>>
    /\ experiment_data' = NoData
    /\ average_ard_kernel' = 0
    /\ induce_data' = 0
    /\ likelihood' = 0
    /\ pwgf' = NoPWGF
    /\ fixed_svgp_model' = NoSVGP
    /\ svgp_model' = NoSVGP
    /\ svgp_pwgf' = NoPWGF
    /\ rng' = NoRng
    /\ UNCHANGED <<disk, world, temper, training, curves, received, history>>

\* main.py 118-120
LoadExperimentData ==
    /\ pc = "data"
    /\ experiment_data_file.exists
    /\ experiment_data' = [cfg |-> experiment_data_file.cfg,
                           n |-> experiment_data_file.n]
    /\ trace' = Append(trace, "dataset")
    /\ pc' = "kernel"
    /\ UNCHANGED <<disk, world, temper, training, curves, received,
                   data_config, kheap, xheap,
                   average_ard_kernel, induce_data, likelihood, pwgf,
                   fixed_svgp_model, svgp_model, svgp_pwgf, rng, written,
                   metrics_run, aborted_at, split_calls, select_calls,
                   optimised, searched, saved_stages, first>>

\* GetExperimentData, but without the check for experiment_data.pth
GetExperimentData_Always ==
    /\ pc = "data"
    /\ \E ok \in BOOLEAN :
        IF ok
        THEN /\ experiment_data' = [cfg |-> data_config,
                                    n |-> TrainSize(data_config)]
             /\ split_calls' = Min(split_calls + 1, 2)
             /\ pc' = "data_save"
             /\ UNCHANGED aborted_at
        ELSE /\ Abort("dataset")
             /\ UNCHANGED <<experiment_data, split_calls>>
    /\ UNCHANGED <<disk, world, temper, training, curves, received,
                   data_config, kheap, xheap,
                   average_ard_kernel, induce_data, likelihood, pwgf,
                   fixed_svgp_model, svgp_model, svgp_pwgf, rng, trace,
                   written, metrics_run, select_calls, optimised, searched,
                   saved_stages, first>>

\* main.py 121-128
GetExperimentData ==
    /\ pc = "data"
    /\ ~experiment_data_file.exists
    /\ \E ok \in BOOLEAN :
        IF ok
        THEN /\ experiment_data' = [cfg |-> data_config,
                                    n |-> TrainSize(data_config)]
             /\ split_calls' = Min(split_calls + 1, 2)
             /\ pc' = "data_save"
             /\ UNCHANGED aborted_at
        ELSE /\ Abort("dataset")
             /\ UNCHANGED <<experiment_data, split_calls>>
    /\ UNCHANGED <<disk, world, temper, training, curves, received,
                   data_config, kheap, xheap,
                   average_ard_kernel, induce_data, likelihood, pwgf,
                   fixed_svgp_model, svgp_model, svgp_pwgf, rng, trace,
                   written, metrics_run, select_calls, optimised, searched,
                   saved_stages, first>>

\* main.py 129
SaveExperimentData ==
    /\ pc = "data_save"
    /\ experiment_data_file' = [exists |-> TRUE, cfg |-> experiment_data.cfg,
                                n |-> experiment_data.n]
    /\ written' = written \cup {"experiment_data.pth"}
    /\ trace' = Append(trace, "dataset")
    /\ pc' = "kernel"
    /\ UNCHANGED <<induce_data_file, pwgf_file, fixed_svgp_file, svgp_file,
                   svgp_pwgf_file, results, world, temper, training, curves,
                   received, memory, metrics_run,
                   aborted_at, split_calls, select_calls, optimised,
                   searched, saved_stages, first>>

\* main.py 131-148
LearnSubsampleGPs ==
    /\ pc = "kernel"
    /\ \E ok \in BOOLEAN :
        IF ok
        THEN /\ kheap' = KAlloc(AverageHyp)
             /\ average_ard_kernel' = KNew
             /\ rng' = Draw(SetSeed(kernel_seed))
             /\ trace' = Append(trace, "kernel")
             /\ pc' = "induce"
             /\ UNCHANGED aborted_at
        ELSE /\ Abort("kernel")
             /\ UNCHANGED <<kheap, average_ard_kernel, rng, trace>>
    /\ UNCHANGED <<disk, world, temper, training, curves, received,
                   data_config, xheap, experiment_data,
                   induce_data, likelihood, pwgf, fixed_svgp_model,
                   svgp_model, svgp_pwgf, written, metrics_run, split_calls,
                   select_calls, optimised, searched, saved_stages, first>>

\* main.py 149-150, 166-168
LoadInduceData ==
    /\ pc = "induce"
    /\ induce_data_file.exists
    /\ xheap' = XAlloc([n |-> induce_data_file.n, loc |-> induce_data_file.loc])
    /\ induce_data' = XNew
    /\ likelihood' = likelihood_noise
    /\ trace' = Append(trace, "induce")
    /\ pc' = "pwgf"
    /\ UNCHANGED <<disk, world, temper, training, curves, received,
                   data_config, kheap, experiment_data,
                   average_ard_kernel, pwgf, fixed_svgp_model, svgp_model,
                   svgp_pwgf, rng, written, metrics_run, aborted_at,
                   split_calls, select_calls, optimised, searched,
                   saved_stages, first>>

SelectInduceData_IgnoresPower ==
    /\ pc = "induce"
    /\ ~induce_data_file.exists
    /\ \E ok \in BOOLEAN :
        LET number_induce_points ==
                config.induce_data_factor * experiment_data.n
        IN
        IF ok /\ ~SelectFails(number_induce_points)
        THEN /\ xheap' = XAlloc(Select(experiment_data.n,
                                       number_induce_points))
             /\ induce_data' = XNew
             /\ rng' = Draw(SetSeed(induce_seed))
             /\ select_calls' = Min(select_calls + 1, 2)
             /\ pc' = "induce_save"
             /\ UNCHANGED aborted_at
        ELSE /\ Abort("induce")
             /\ UNCHANGED <<xheap, induce_data, rng, select_calls>>
    /\ UNCHANGED <<disk, world, temper, training, curves, received,
                   data_config, kheap, experiment_data,
                   average_ard_kernel, likelihood, pwgf, fixed_svgp_model,
                   svgp_model, svgp_pwgf, trace, written, metrics_run,
                   split_calls, optimised, searched, saved_stages, first>>

\* main.py 151-164
SelectInduceData ==
    /\ pc = "induce"
    /\ ~induce_data_file.exists
    /\ \E ok \in BOOLEAN :
        LET number_induce_points ==
                NumberInducePoints(experiment_data.n,
                                   config.induce_data_factor,
                                   config.induce_data_power)
        IN
        IF ok /\ ~SelectFails(number_induce_points)
        THEN /\ xheap' = XAlloc(Select(experiment_data.n,
                                       number_induce_points))
             /\ induce_data' = XNew
             /\ rng' = Draw(SetSeed(induce_seed))
             /\ select_calls' = Min(select_calls + 1, 2)
             /\ pc' = "induce_save"
             /\ UNCHANGED aborted_at
        ELSE /\ Abort("induce")
             /\ UNCHANGED <<xheap, induce_data, rng, select_calls>>
    /\ UNCHANGED <<disk, world, temper, training, curves, received,
                   data_config, kheap, experiment_data,
                   average_ard_kernel, likelihood, pwgf, fixed_svgp_model,
                   svgp_model, svgp_pwgf, trace, written, metrics_run,
                   split_calls, optimised, searched, saved_stages, first>>

\* main.py 165-168
SaveInduceData ==
    /\ pc = "induce_save"
    /\ induce_data_file' = [exists |-> TRUE, n |-> xheap[induce_data].n,
                            loc |-> xheap[induce_data].loc]
    /\ likelihood' = likelihood_noise
    /\ written' = written \cup {"inducing_points.pth"}
    /\ trace' = Append(trace, "induce")
    /\ pc' = "pwgf"
    /\ UNCHANGED <<experiment_data_file, pwgf_file, fixed_svgp_file,
                   svgp_file, svgp_pwgf_file, results, world, temper,
                   training, curves, received, data_config,
                   kheap, xheap, experiment_data, average_ard_kernel,
                   induce_data, pwgf, fixed_svgp_model, svgp_model,
                   svgp_pwgf, rng, metrics_run, aborted_at, split_calls,
                   select_calls, optimised, searched, saved_stages, first>>

\* main.py 169-177
LoadPWGF ==
    /\ pc = "pwgf"
    /\ pwgf_file.exists
    /\ kheap' = KAlloc(kheap[average_ard_kernel])
    /\ pwgf' = load_projected_wasserstein_gradient_flow(
                   pwgf_file, KNew, likelihood, induce_data)
    /\ optimised' = IF saved_stages["pwgf"].optimised
                    THEN optimised \cup {"pwgf"} ELSE optimised
    /\ searched' = IF saved_stages["pwgf"].searched
                   THEN searched \cup {"pwgf"} ELSE searched
    /\ trace' = Append(trace, "pwgf_load")
    /\ pc' = "pwgf_seed"
    /\ received' = [received EXCEPT !["pwgf"] =
                        [given |-> TRUE, copy |-> TRUE,
                         source |-> average_ard_kernel,
                         hyp |-> kheap[average_ard_kernel]]]
    /\ UNCHANGED <<disk, world, temper, training, curves, data_config, xheap,
                   experiment_data,
                   average_ard_kernel, induce_data, likelihood,
                   fixed_svgp_model, svgp_model, svgp_pwgf, rng, written,
                   metrics_run, aborted_at, split_calls, select_calls,
                   saved_stages, first>>

\* TrainPWGF, but the checkpoint is written without the noise search
TrainPWGF_SkipsSearch ==
    /\ pc = "pwgf"
    /\ ~pwgf_file.exists
    /\ \E ok \in BOOLEAN :
        IF ok
        THEN /\ kheap' = KAlloc(kheap[average_ard_kernel])
             /\ pwgf' = [kernel |-> KNew,
                         x_induce |-> induce_data,
                         observation_noise |-> likelihood,
                         particles |-> InitialParticles(
                             xheap[induce_data].n, experiment_data.n,
                             number_of_particles, pwgf_seed)]
             /\ rng' = Draw(SetSeed(pwgf_seed))
             /\ optimised' = optimised \cup {"pwgf"}
             /\ trace' = Append(trace, "pwgf_optimisation")
             /\ pc' = "pwgf_save"
             /\ UNCHANGED aborted_at
        ELSE /\ Abort("pwgf_optimisation")
             /\ UNCHANGED <<kheap, pwgf, rng, optimised, trace>>
    /\ received' = [received EXCEPT !["pwgf"] =
                        [given |-> TRUE, copy |-> TRUE,
                         source |-> average_ard_kernel,
                         hyp |-> kheap[average_ard_kernel]]]
    /\ UNCHANGED <<disk, world, temper, training, curves, data_config, xheap,
                   experiment_data,
                   average_ard_kernel, induce_data, likelihood,
                   fixed_svgp_model, svgp_model, svgp_pwgf, written,
                   metrics_run, split_calls, select_calls, searched,
                   saved_stages, first>>

\* main.py 178-198
TrainPWGF ==
    /\ pc = "pwgf"
    /\ ~pwgf_file.exists
    /\ \E ok \in BOOLEAN :
        IF ok
        THEN /\ kheap' = KAlloc(kheap[average_ard_kernel])
             /\ pwgf' = [kernel |-> KNew,
                         x_induce |-> induce_data,
                         observation_noise |-> likelihood,
                         particles |-> InitialParticles(
                             xheap[induce_data].n, experiment_data.n,
                             number_of_particles, pwgf_seed)]
             /\ rng' = Draw(SetSeed(pwgf_seed))
             /\ optimised' = optimised \cup {"pwgf"}
             /\ trace' = Append(trace, "pwgf_optimisation")
             /\ pc' = "pwgf_search"
             /\ UNCHANGED aborted_at
        ELSE /\ Abort("pwgf_optimisation")
             /\ UNCHANGED <<kheap, pwgf, rng, optimised, trace>>
    /\ received' = [received EXCEPT !["pwgf"] =
                        [given |-> TRUE, copy |-> TRUE,
                         source |-> average_ard_kernel,
                         hyp |-> kheap[average_ard_kernel]]]
    /\ UNCHANGED <<disk, world, temper, training, curves, data_config, xheap,
                   experiment_data,
                   average_ard_kernel, induce_data, likelihood,
                   fixed_svgp_model, svgp_model, svgp_pwgf, written,
                   metrics_run, split_calls, select_calls, searched,
                   saved_stages, first>>

\* NoiseSearchPWGF, but a failed search leaves the unsearched model on disk
NoiseSearchPWGF_SavesOnError ==
    /\ pc = "pwgf_search"
    /\ \E ok \in BOOLEAN :
        IF ok
        THEN /\ pwgf' = [pwgf EXCEPT !.observation_noise =
                             pwgf_observation_noise_search(nll)]
             /\ searched' = searched \cup {"pwgf"}
             /\ trace' = Append(trace, "noise_search")
             /\ pc' = "pwgf_save"
             /\ UNCHANGED <<aborted_at, pwgf_file>>
        ELSE /\ Abort("noise_search")
             /\ pwgf_file' = [exists |-> TRUE,
                              particles |-> pwgf.particles,
                              observation_noise |-> pwgf.observation_noise]
             /\ UNCHANGED <<pwgf, searched, trace>>
    /\ UNCHANGED <<experiment_data_file, induce_data_file, fixed_svgp_file,
                   svgp_file, svgp_pwgf_file, results, world, temper,
                   training, curves, received, data_config, kheap, xheap,
                   experiment_data,
                   average_ard_kernel, induce_data, likelihood,
                   fixed_svgp_model, svgp_model, svgp_pwgf, rng, written,
                   metrics_run, split_calls, select_calls, optimised,
                   saved_stages, first>>

\* NoiseSearchPWGF, but the value the search returns is not stored
NoiseSearchPWGF_DropsResult ==
    /\ pc = "pwgf_search"
    /\ \E ok \in BOOLEAN :
        IF ok
        THEN /\ pwgf' = pwgf
             /\ searched' = searched \cup {"pwgf"}
             /\ trace' = Append(trace, "noise_search")
             /\ pc' = "pwgf_save"
             /\ UNCHANGED aborted_at
        ELSE /\ Abort("noise_search")
             /\ UNCHANGED <<pwgf, searched, trace>>
    /\ UNCHANGED <<disk, world, temper, training, curves, received,
                   data_config, kheap, xheap, experiment_data,
                   average_ard_kernel, induce_data, likelihood,
                   fixed_svgp_model, svgp_model, svgp_pwgf, rng, written,
                   metrics_run, split_calls, select_calls, optimised,
                   saved_stages, first>>

\* main.py 199-206
NoiseSearchPWGF ==
    /\ pc = "pwgf_search"
    /\ \E ok \in BOOLEAN :
        IF ok
        THEN /\ pwgf' = [pwgf EXCEPT !.observation_noise =
                             pwgf_observation_noise_search(nll)]
             /\ searched' = searched \cup {"pwgf"}
             /\ trace' = Append(trace, "noise_search")
             /\ pc' = "pwgf_save"
             /\ UNCHANGED aborted_at
        ELSE /\ Abort("noise_search")
             /\ UNCHANGED <<pwgf, searched, trace>>
    /\ UNCHANGED <<disk, world, temper, training, curves, received,
                   data_config, kheap, xheap, experiment_data,
                   average_ard_kernel, induce_data, likelihood,
                   fixed_svgp_model, svgp_model, svgp_pwgf, rng, written,
                   metrics_run, split_calls, select_calls, optimised,
                   saved_stages, first>>

\* main.py 207-213
SavePWGF ==
    /\ pc = "pwgf_save"
    /\ pwgf_file' = [exists |-> TRUE,
                     particles |-> pwgf.particles,
                     observation_noise |-> pwgf.observation_noise]
    /\ saved_stages' = [saved_stages EXCEPT !["pwgf"] =
                           [optimised |-> "pwgf" \in optimised,
                            searched |-> "pwgf" \in searched]]
    /\ written' = written \cup {"pwgf_model.pth"}
    /\ pc' = "pwgf_seed"
    /\ UNCHANGED <<experiment_data_file, induce_data_file, fixed_svgp_file,
                   svgp_file, svgp_pwgf_file, results, world, temper,
                   training, curves, received, memory, trace,
                   metrics_run, aborted_at, split_calls, select_calls,
                   optimised, searched, first>>

\* SetSeedPWGF, but main does not reseed before the metrics
SetSeedPWGF_Missing ==
    /\ pc = "pwgf_seed"
    /\ rng' = rng
    /\ pc' = "pwgf_metrics"
    /\ UNCHANGED <<disk, world, temper, training, curves, received,
                   data_config, kheap, xheap, experiment_data,
                   average_ard_kernel, induce_data, likelihood, pwgf,
                   fixed_svgp_model, svgp_model, svgp_pwgf, history>>

\* main.py 214
SetSeedPWGF ==
    /\ pc = "pwgf_seed"
    /\ rng' = SetSeed(pwgf_seed)
    /\ pc' = "pwgf_metrics"
    /\ UNCHANGED <<disk, world, temper, training, curves, received,
                   data_config, kheap, xheap, experiment_data,
                   average_ard_kernel, induce_data, likelihood, pwgf,
                   fixed_svgp_model, svgp_model, svgp_pwgf, history>>

\* calculate_metrics(model, model_name, ...): the entry written to
\* results_path for a particle model
ParticleMetrics(model) ==
    [written |-> TRUE, observation_noise |-> model.observation_noise,
     val |-> model.particles.val, seed |-> rng.seed, used |-> rng.used]

\* main.py 215-222
CalculateMetricsPWGF ==
    /\ pc = "pwgf_metrics"
    /\ results' = [results EXCEPT !["pwgf"] = ParticleMetrics(pwgf)]
    /\ rng' = Draw(rng)
    /\ metrics_run' = metrics_run \cup {"pwgf"}
    /\ first' = IF first.seen THEN first
                ELSE [seen |-> TRUE, cfg |-> data_config,
                      particles |-> pwgf.particles,
                      observation_noise |-> pwgf.observation_noise]
    /\ trace' = Append(trace, "pwgf_metrics")
    /\ pc' = "fixed"
    /\ UNCHANGED <<experiment_data_file, induce_data_file, pwgf_file,
                   fixed_svgp_file, svgp_file, svgp_pwgf_file, world, temper,
                   training, curves, received,
                   data_config, kheap, xheap, experiment_data,
                   average_ard_kernel, induce_data, likelihood, pwgf,
                   fixed_svgp_model, svgp_model, svgp_pwgf, written,
                   aborted_at, split_calls, select_calls, optimised,
                   searched, saved_stages>>

\* main.py 223-230
LoadFixedSVGP ==
    /\ pc = "fixed"
    /\ fixed_svgp_file.exists
    /\ kheap' = KAlloc(fixed_svgp_file.hyp)
    /\ xheap' = XAlloc([n |-> fixed_svgp_file.n, loc |-> fixed_svgp_file.loc])
    /\ fixed_svgp_model' = load_svgp(fixed_svgp_file, KNew, XNew)
    /\ trace' = Append(trace, "fixed_svgp_load")
    /\ pc' = "fixed_seed"
    /\ received' = [received EXCEPT !["fixed-svgp"] =
                        [given |-> TRUE, copy |-> TRUE,
                         source |-> average_ard_kernel,
                         hyp |-> kheap[average_ard_kernel]]]
    /\ UNCHANGED <<disk, world, temper, training, curves, data_config,
                   experiment_data,
                   average_ard_kernel, induce_data, likelihood, pwgf,
                   svgp_model, svgp_pwgf, rng, written, metrics_run,
                   aborted_at, split_calls, select_calls, optimised,
                   searched, saved_stages, first>>

\* main.py 231-251
TrainFixedSVGP ==
    /\ pc = "fixed"
    /\ ~fixed_svgp_file.exists
    /\ \E ok \in BOOLEAN :
        IF ok
        THEN LET state == train_svgp(kheap[average_ard_kernel],
                                     xheap[induce_data], TRUE,
                                     pwgf.observation_noise)
             IN /\ kheap' = KAlloc(state.hyp)
                /\ xheap' = XAlloc([n |-> state.n, loc |-> state.loc])
                /\ fixed_svgp_model' = [kernel |-> KNew, x_induce |-> XNew,
                                        noise |-> state.noise]
                /\ rng' = Draw(SetSeed(svgp_seed))
                /\ trace' = Append(trace, "fixed_svgp_training")
                /\ pc' = "fixed_save"
                /\ UNCHANGED aborted_at
        ELSE /\ Abort("fixed_svgp_training")
             /\ UNCHANGED <<kheap, xheap, fixed_svgp_model, rng, trace>>
    /\ received' = [received EXCEPT !["fixed-svgp"] =
                        [given |-> TRUE, copy |-> TRUE,
                         source |-> average_ard_kernel,
                         hyp |-> kheap[average_ard_kernel]]]
    /\ UNCHANGED <<disk, world, temper, training, curves, data_config,
                   experiment_data,
                   average_ard_kernel, induce_data, likelihood, pwgf,
                   svgp_model, svgp_pwgf, written, metrics_run, split_calls,
                   select_calls, optimised, searched, saved_stages, first>>

\* main.py 252-258
SaveFixedSVGP ==
    /\ pc = "fixed_save"
    /\ fixed_svgp_file' = StateDict(fixed_svgp_model)
    /\ written' = written \cup {"fixed_svgp_model.pth"}
    /\ pc' = "fixed_seed"
    /\ UNCHANGED <<experiment_data_file, induce_data_file, pwgf_file,
                   svgp_file, svgp_pwgf_file, results, world, temper,
                   training, curves, received, memory, trace,
                   metrics_run, aborted_at, split_calls, select_calls,
                   optimised, searched, saved_stages, first>>

\* main.py 259
SetSeedFixedSVGP ==
    /\ pc = "fixed_seed"
    /\ rng' = SetSeed(svgp_seed)
    /\ pc' = "fixed_metrics"
    /\ UNCHANGED <<disk, world, temper, training, curves, received,
                   data_config, kheap, xheap, experiment_data,
                   average_ard_kernel, induce_data, likelihood, pwgf,
                   fixed_svgp_model, svgp_model, svgp_pwgf, history>>

\* main.py 260-267
CalculateMetricsFixedSVGP ==
    /\ pc = "fixed_metrics"
    /\ results' = [results EXCEPT !["fixed-svgp"] =
                      SVGPMetrics(fixed_svgp_model)]
    /\ rng' = Draw(rng)
    /\ metrics_run' = metrics_run \cup {"fixed-svgp"}
    /\ trace' = Append(trace, "fixed_svgp_metrics")
    /\ pc' = "svgp"
    /\ UNCHANGED <<experiment_data_file, induce_data_file, pwgf_file,
                   fixed_svgp_file, svgp_file, svgp_pwgf_file, world, temper,
                   training, curves, received,
                   data_config, kheap, xheap, experiment_data,
                   average_ard_kernel, induce_data, likelihood, pwgf,
                   fixed_svgp_model, svgp_model, svgp_pwgf, written,
                   aborted_at, split_calls, select_calls, optimised,
                   searched, saved_stages, first>>

\* main.py 268-279
LoadSVGP ==
    /\ pc = "svgp"
    /\ svgp_file.exists
    /\ kheap' = KAlloc(svgp_file.hyp)
    /\ xheap' = XAlloc([n |-> svgp_file.n, loc |-> svgp_file.loc])
    /\ svgp_model' = load_svgp(svgp_file, KNew, XNew)
    /\ trace' = Append(trace, "svgp_load")
    /\ pc' = "svgp_seed"
    /\ received' = [received EXCEPT !["svgp"] =
                        [given |-> TRUE, copy |-> FALSE, source |-> 0,
                         hyp |-> InitialHyp]]
    /\ UNCHANGED <<disk, world, temper, training, curves, data_config,
                   experiment_data,
                   average_ard_kernel, induce_data, likelihood, pwgf,
                   fixed_svgp_model, svgp_pwgf, rng, written, metrics_run,
                   aborted_at, split_calls, select_calls, optimised,
                   searched, saved_stages, first>>

\* TrainSVGP, but without the os.path.exists check
TrainSVGP_Always ==
    /\ pc = "svgp"
    /\ \E ok \in BOOLEAN :
        IF ok
        THEN LET state == train_svgp(InitialHyp, xheap[induce_data], FALSE, 0)
             IN /\ kheap' = KAlloc(state.hyp)
                /\ xheap' = XAlloc([n |-> state.n, loc |-> state.loc])
                /\ svgp_model' = [kernel |-> KNew, x_induce |-> XNew,
                                  noise |-> state.noise]
                /\ rng' = Draw(SetSeed(svgp_seed))
                /\ trace' = Append(trace, "svgp_training")
                /\ pc' = "svgp_save"
                /\ UNCHANGED aborted_at
        ELSE /\ Abort("svgp_training")
             /\ UNCHANGED <<kheap, xheap, svgp_model, rng, trace>>
    /\ received' = [received EXCEPT !["svgp"] =
                        [given |-> TRUE, copy |-> FALSE, source |-> 0,
                         hyp |-> InitialHyp]]
    /\ UNCHANGED <<disk, world, temper, training, curves, data_config,
                   experiment_data,
                   average_ard_kernel, induce_data, likelihood, pwgf,
                   fixed_svgp_model, svgp_pwgf, written, metrics_run,
                   split_calls, select_calls, optimised, searched,
                   saved_stages, first>>

\* main.py 280-303
TrainSVGP ==
    /\ pc = "svgp"
    /\ ~svgp_file.exists
    /\ \E ok \in BOOLEAN :
        IF ok
        THEN LET state == train_svgp(InitialHyp, xheap[induce_data], FALSE, 0)
             IN /\ kheap' = KAlloc(state.hyp)
                /\ xheap' = XAlloc([n |-> state.n, loc |-> state.loc])
                /\ svgp_model' = [kernel |-> KNew, x_induce |-> XNew,
                                  noise |-> state.noise]
                /\ rng' = Draw(SetSeed(svgp_seed))
                /\ trace' = Append(trace, "svgp_training")
                /\ pc' = "svgp_save"
                /\ UNCHANGED aborted_at
        ELSE /\ Abort("svgp_training")
             /\ UNCHANGED <<kheap, xheap, svgp_model, rng, trace>>
    /\ received' = [received EXCEPT !["svgp"] =
                        [given |-> TRUE, copy |-> FALSE, source |-> 0,
                         hyp |-> InitialHyp]]
    /\ UNCHANGED <<disk, world, temper, training, curves, data_config,
                   experiment_data,
                   average_ard_kernel, induce_data, likelihood, pwgf,
                   fixed_svgp_model, svgp_pwgf, written, metrics_run,
                   split_calls, select_calls, optimised, searched,
                   saved_stages, first>>

\* main.py 304-310
SaveSVGP ==
    /\ pc = "svgp_save"
    /\ svgp_file' = StateDict(svgp_model)
    /\ written' = written \cup {"svgp_model.pth"}
    /\ pc' = "svgp_seed"
    /\ UNCHANGED <<experiment_data_file, induce_data_file, pwgf_file,
                   fixed_svgp_file, svgp_pwgf_file, results, world, temper,
                   training, curves, received, memory,
                   trace, metrics_run, aborted_at, split_calls, select_calls,
                   optimised, searched, saved_stages, first>>

\* main.py 311
SetSeedSVGP ==
    /\ pc = "svgp_seed"
    /\ rng' = SetSeed(svgp_seed)
    /\ pc' = "svgp_metrics"
    /\ UNCHANGED <<disk, world, temper, training, curves, received,
                   data_config, kheap, xheap, experiment_data,
                   average_ard_kernel, induce_data, likelihood, pwgf,
                   fixed_svgp_model, svgp_model, svgp_pwgf, history>>

\* main.py 312-319
CalculateMetricsSVGP ==
    /\ pc = "svgp_metrics"
    /\ results' = [results EXCEPT !["svgp"] = SVGPMetrics(svgp_model)]
    /\ rng' = Draw(rng)
    /\ metrics_run' = metrics_run \cup {"svgp"}
    /\ trace' = Append(trace, "svgp_metrics")
    /\ pc' = "svgp_pwgf"
    /\ UNCHANGED <<experiment_data_file, induce_data_file, pwgf_file,
                   fixed_svgp_file, svgp_file, svgp_pwgf_file, world, temper,
                   training, curves, received,
                   data_config, kheap, xheap, experiment_data,
                   average_ard_kernel, induce_data, likelihood, pwgf,
                   fixed_svgp_model, svgp_model, svgp_pwgf, written,
                   aborted_at, split_calls, select_calls, optimised,
                   searched, saved_stages, first>>

\* main.py 321-332
LoadSVGPPWGF ==
    /\ pc = "svgp_pwgf"
    /\ svgp_pwgf_file.exists
    /\ kheap' = KAlloc(kheap[svgp_model.kernel])
    /\ xheap' = XAlloc(xheap[svgp_model.x_induce])
    /\ svgp_pwgf' = load_projected_wasserstein_gradient_flow(
                        svgp_pwgf_file, KNew, svgp_model.noise, XNew)
    /\ optimised' = IF saved_stages["pwgf-svgp"].optimised
                    THEN optimised \cup {"pwgf-svgp"} ELSE optimised
    /\ searched' = IF saved_stages["pwgf-svgp"].searched
                   THEN searched \cup {"pwgf-svgp"} ELSE searched
    /\ trace' = Append(trace, "svgp_pwgf_load")
    /\ pc' = "svgp_pwgf_seed"
    /\ received' = [received EXCEPT !["pwgf-svgp"] =
                        [given |-> TRUE, copy |-> TRUE,
                         source |-> svgp_model.kernel,
                         hyp |-> kheap[svgp_model.kernel]]]
    /\ UNCHANGED <<disk, world, temper, training, curves, data_config,
                   experiment_data,
                   average_ard_kernel, induce_data, likelihood, pwgf,
                   fixed_svgp_model, svgp_model, rng, written, metrics_run,
                   aborted_at, split_calls, select_calls, saved_stages,
                   first>>

\* TrainSVGPPWGF, but the inducing points are passed without deepcopy
TrainSVGPPWGF_SharesInducingPoints ==
    /\ pc = "svgp_pwgf"
    /\ ~svgp_pwgf_file.exists
    /\ \E ok \in BOOLEAN :
        IF ok
        THEN /\ kheap' = KAlloc(kheap[svgp_model.kernel])
             /\ xheap' = xheap
             /\ svgp_pwgf' = [kernel |-> KNew,
                              x_induce |-> svgp_model.x_induce,
                              observation_noise |-> svgp_model.noise,
                              particles |-> InitialParticles(
                                  xheap[svgp_model.x_induce].n,
                                  experiment_data.n, number_of_particles,
                                  pwgf_seed)]
             /\ rng' = Draw(SetSeed(pwgf_seed))
             /\ optimised' = optimised \cup {"pwgf-svgp"}
             /\ trace' = Append(trace, "svgp_pwgf_optimisation")
             /\ pc' = "svgp_pwgf_save"
             /\ UNCHANGED aborted_at
        ELSE /\ Abort("svgp_pwgf_optimisation")
             /\ UNCHANGED <<kheap, xheap, svgp_pwgf, rng, optimised, trace>>
    /\ received' = [received EXCEPT !["pwgf-svgp"] =
                        [given |-> TRUE, copy |-> TRUE,
                         source |-> svgp_model.kernel,
                         hyp |-> kheap[svgp_model.kernel]]]
    /\ UNCHANGED <<disk, world, temper, training, curves, data_config,
                   experiment_data,
                   average_ard_kernel, induce_data, likelihood, pwgf,
                   fixed_svgp_model, svgp_model, written, metrics_run,
                   split_calls, select_calls, searched, saved_stages, first>>

\* main.py 333-356
TrainSVGPPWGF ==
    /\ pc = "svgp_pwgf"
    /\ ~svgp_pwgf_file.exists
    /\ \E ok \in BOOLEAN :
        IF ok
        THEN /\ kheap' = KAlloc(kheap[svgp_model.kernel])
             /\ xheap' = XAlloc(xheap[svgp_model.x_induce])
             /\ svgp_pwgf' = [kernel |-> KNew,
                              x_induce |-> XNew,
                              observation_noise |-> svgp_model.noise,
                              particles |-> InitialParticles(
                                  xheap[svgp_model.x_induce].n,
                                  experiment_data.n, number_of_particles,
                                  pwgf_seed)]
             /\ rng' = Draw(SetSeed(pwgf_seed))
             /\ optimised' = optimised \cup {"pwgf-svgp"}
             /\ trace' = Append(trace, "svgp_pwgf_optimisation")
             /\ pc' = "svgp_pwgf_save"
             /\ UNCHANGED aborted_at
        ELSE /\ Abort("svgp_pwgf_optimisation")
             /\ UNCHANGED <<kheap, xheap, svgp_pwgf, rng, optimised, trace>>
    /\ received' = [received EXCEPT !["pwgf-svgp"] =
                        [given |-> TRUE, copy |-> TRUE,
                         source |-> svgp_model.kernel,
                         hyp |-> kheap[svgp_model.kernel]]]
    /\ UNCHANGED <<disk, world, temper, training, curves, data_config,
                   experiment_data,
                   average_ard_kernel, induce_data, likelihood, pwgf,
                   fixed_svgp_model, svgp_model, written, metrics_run,
                   split_calls, select_calls, searched, saved_stages, first>>

\* main.py 357-363
SaveSVGPPWGF ==
    /\ pc = "svgp_pwgf_save"
    /\ svgp_pwgf_file' = [exists |-> TRUE,
                          particles |-> svgp_pwgf.particles,
                          observation_noise |-> svgp_pwgf.observation_noise]
    /\ saved_stages' = [saved_stages EXCEPT !["pwgf-svgp"] =
                           [optimised |-> "pwgf-svgp" \in optimised,
                            searched |-> "pwgf-svgp" \in searched]]
    /\ written' = written \cup {"svgp_pwgf_model.pth"}
    /\ pc' = "svgp_pwgf_seed"
    /\ UNCHANGED <<experiment_data_file, induce_data_file, pwgf_file,
                   fixed_svgp_file, svgp_file, results, world, temper,
                   training, curves, received, memory, trace,
                   metrics_run, aborted_at, split_calls, select_calls,
                   optimised, searched, first>>

\* main.py 364
SetSeedSVGPPWGF ==
    /\ pc = "svgp_pwgf_seed"
    /\ rng' = SetSeed(pwgf_seed)
    /\ pc' = "svgp_pwgf_metrics"
    /\ UNCHANGED <<disk, world, temper, training, curves, received,
                   data_config, kheap, xheap, experiment_data,
                   average_ard_kernel, induce_data, likelihood, pwgf,
                   fixed_svgp_model, svgp_model, svgp_pwgf, history>>

\* main.py 365-372
CalculateMetricsSVGPPWGF ==
    /\ pc = "svgp_pwgf_metrics"
    /\ results' = [results EXCEPT !["pwgf-svgp"] = ParticleMetrics(svgp_pwgf)]
    /\ rng' = Draw(rng)
    /\ metrics_run' = metrics_run \cup {"pwgf-svgp"}
    /\ trace' = Append(trace, "svgp_pwgf_metrics")
    /\ pc' = "done"
    /\ UNCHANGED <<experiment_data_file, induce_data_file, pwgf_file,
                   fixed_svgp_file, svgp_file, svgp_pwgf_file, world, temper,
                   training, curves, received,
                   data_config, kheap, xheap, experiment_data,
                   average_ard_kernel, induce_data, likelihood, pwgf,
                   fixed_svgp_model, svgp_model, svgp_pwgf, written,
                   aborted_at, split_calls, select_calls, optimised,
                   searched, saved_stages, first>>

\* ------------------------------------------------- a run of the curves main
\* main(curve_function, ...) of experiments/curves/main.py: no checkpoints
CurvesAbort(stage) ==
    /\ pc' = "curves_aborted"
    /\ aborted_at' = stage

\* model.likelihood.noise if gp_scheme == "exact" else 1.0
CurvesObservationNoise ==
    IF fitted_model.gp_scheme = "exact" THEN fitted_model.noise ELSE 1

\* curves/main.py 95-98
CurvesGetExperimentData ==
    /\ pc = "curves_idle"
    /\ \E c \in DataConfigs :
          /\ data_config' = c
          /\ experiment_data' = [cfg |-> c, n |-> TrainSize(c)]
    /\ aborted_at' = ""
    /\ received' = [m \in ModelNames |-> NoKernel]
    /\ pc' = "curves_kernel"
    /\ UNCHANGED <<disk, world, temper, training, curves, kheap, xheap,
                   average_ard_kernel, induce_data, likelihood, pwgf,
                   fixed_svgp_model, svgp_model, svgp_pwgf, rng, trace,
                   written, metrics_run, split_calls, select_calls,
                   optimised, searched, saved_stages, first>>

\* curves/main.py 111-132
CurvesOptimiseKernelAndInduceData ==
    /\ pc = "curves_kernel"
    /\ \E ok \in BOOLEAN : \E gp_scheme \in {"exact", "sparse"} :
        IF ok /\ ~SelectFails(InduceCount(experiment_data.n))
        THEN /\ kheap' = KAlloc(FittedHyp)
             /\ fitted_model' = [kernel |-> KNew, noise |-> likelihood_noise,
                                 gp_scheme |-> gp_scheme]
             /\ xheap' = XAlloc(Select(experiment_data.n,
                                       InduceCount(experiment_data.n)))
             /\ induce_data' = XNew
             /\ rng' = Draw(SetSeed(kernel_seed))
             /\ pc' = "curves_pwgf"
             /\ UNCHANGED aborted_at
        ELSE /\ CurvesAbort("kernel")
             /\ UNCHANGED <<kheap, fitted_model, xheap, induce_data, rng>>
    /\ UNCHANGED <<disk, world, temper, training, curves_results, received,
                   data_config, experiment_data, average_ard_kernel,
                   likelihood, pwgf, fixed_svgp_model, svgp_model, svgp_pwgf,
                   trace, written, metrics_run, split_calls, select_calls,
                   optimised, searched, saved_stages, first>>

\* curves/main.py 133-154: kernel=model.kernel, the object itself
CurvesPWGF ==
    /\ pc = "curves_pwgf"
    /\ \E ok \in BOOLEAN :
        IF ok
        THEN /\ pwgf' = [kernel |-> fitted_model.kernel,
                         x_induce |-> induce_data,
                         observation_noise |-> CurvesObservationNoise,
                         particles |-> InitialParticles(
                             xheap[induce_data].n, experiment_data.n,
                             number_of_particles, pwgf_seed)]
             /\ rng' = Draw(SetSeed(pwgf_seed))
             /\ pc' = "curves_pwgf_metrics"
             /\ UNCHANGED aborted_at
        ELSE /\ CurvesAbort("pwgf_optimisation")
             /\ UNCHANGED <<pwgf, rng>>
    /\ received' = [received EXCEPT !["pwgf"] =
                        [given |-> TRUE, copy |-> FALSE,
                         source |-> fitted_model.kernel,
                         hyp |-> kheap[fitted_model.kernel]]]
    /\ UNCHANGED <<disk, world, temper, training, curves, data_config,
                   kheap, xheap, experiment_data, average_ard_kernel,
                   induce_data, likelihood, fixed_svgp_model, svgp_model,
                   svgp_pwgf, trace, written, metrics_run, split_calls,
                   select_calls, optimised, searched, saved_stages, first>>

\* curves/main.py 155-162
CurvesMetricsPWGF ==
    /\ pc = "curves_pwgf_metrics"
    /\ curves_results' = [curves_results EXCEPT
                              !["pwgf"] = ParticleMetrics(pwgf)]
    /\ rng' = Draw(rng)
    /\ pc' = "curves_fixed"
    /\ UNCHANGED <<disk, world, temper, training, fitted_model, received,
                   data_config, kheap, xheap, experiment_data,
                   average_ard_kernel, induce_data, likelihood, pwgf,
                   fixed_svgp_model, svgp_model, svgp_pwgf, history>>

\* CurvesTrainFixedSVGP, but called with is_fixed=False
CurvesTrainFixedSVGP_LearnsKernel ==
    /\ pc = "curves_fixed"
    /\ \E ok \in BOOLEAN :
        IF ok
        THEN LET state == train_svgp(kheap[fitted_model.kernel],
                                     xheap[induce_data], FALSE, 0)
             IN /\ kheap' = [kheap EXCEPT ![fitted_model.kernel] = state.hyp]
                /\ xheap' = XAlloc([n |-> state.n, loc |-> state.loc])
                /\ fixed_svgp_model' = [kernel |-> fitted_model.kernel,
                                        x_induce |-> XNew,
                                        noise |-> state.noise]
                /\ rng' = Draw(SetSeed(svgp_seed))
                /\ pc' = "curves_fixed_metrics"
                /\ UNCHANGED aborted_at
        ELSE /\ CurvesAbort("fixed_svgp_training")
             /\ UNCHANGED <<kheap, xheap, fixed_svgp_model, rng>>
    /\ received' = [received EXCEPT !["fixed-svgp"] =
                        [given |-> TRUE, copy |-> FALSE,
                         source |-> fitted_model.kernel,
                         hyp |-> kheap[fitted_model.kernel]]]
    /\ UNCHANGED <<disk, world, temper, training, curves, data_config,
                   experiment_data, average_ard_kernel, induce_data,
                   likelihood, pwgf, svgp_model, svgp_pwgf, trace, written,
                   metrics_run, split_calls, select_calls, optimised,
                   searched, saved_stages, first>>

\* curves/main.py 163-180: kernel=model.kernel, the object itself, trained
\* in place with is_fixed=True
CurvesTrainFixedSVGP ==
    /\ pc = "curves_fixed"
    /\ \E ok \in BOOLEAN :
        IF ok
        THEN LET state == train_svgp(kheap[fitted_model.kernel],
                                     xheap[induce_data], TRUE, 0)
             IN /\ kheap' = [kheap EXCEPT ![fitted_model.kernel] = state.hyp]
                /\ xheap' = XAlloc([n |-> state.n, loc |-> state.loc])
                /\ fixed_svgp_model' = [kernel |-> fitted_model.kernel,
                                        x_induce |-> XNew,
                                        noise |-> state.noise]
                /\ rng' = Draw(SetSeed(svgp_seed))
                /\ pc' = "curves_fixed_metrics"
                /\ UNCHANGED aborted_at
        ELSE /\ CurvesAbort("fixed_svgp_training")
             /\ UNCHANGED <<kheap, xheap, fixed_svgp_model, rng>>
    /\ received' = [received EXCEPT !["fixed-svgp"] =
                        [given |-> TRUE, copy |-> FALSE,
                         source |-> fitted_model.kernel,
                         hyp |-> kheap[fitted_model.kernel]]]
    /\ UNCHANGED <<disk, world, temper, training, curves, data_config,
                   experiment_data, average_ard_kernel, induce_data,
                   likelihood, pwgf, svgp_model, svgp_pwgf, trace, written,
                   metrics_run, split_calls, select_calls, optimised,
                   searched, saved_stages, first>>

\* curves/main.py 181-187
CurvesMetricsFixedSVGP ==
    /\ pc = "curves_fixed_metrics"
    /\ curves_results' = [curves_results EXCEPT
                              !["fixed-svgp"] = SVGPMetrics(fixed_svgp_model)]
    /\ rng' = Draw(rng)
    /\ pc' = "curves_svgp"
    /\ UNCHANGED <<disk, world, temper, training, fitted_model, received,
                   data_config, kheap, xheap, experiment_data,
                   average_ard_kernel, induce_data, likelihood, pwgf,
                   fixed_svgp_model, svgp_model, svgp_pwgf, history>>

\* curves/main.py 188-207: a kernel constructed in the call
CurvesTrainSVGP ==
    /\ pc = "curves_svgp"
    /\ \E ok \in BOOLEAN :
        IF ok
        THEN LET state == train_svgp(InitialHyp, xheap[induce_data], FALSE, 0)
             IN /\ kheap' = KAlloc(state.hyp)
                /\ xheap' = XAlloc([n |-> state.n, loc |-> state.loc])
                /\ svgp_model' = [kernel |-> KNew, x_induce |-> XNew,
                                  noise |-> state.noise]
                /\ rng' = Draw(SetSeed(svgp_seed))
                /\ pc' = "curves_svgp_metrics"
                /\ UNCHANGED aborted_at
        ELSE /\ CurvesAbort("svgp_training")
             /\ UNCHANGED <<kheap, xheap, svgp_model, rng>>
    /\ received' = [received EXCEPT !["svgp"] =
                        [given |-> TRUE, copy |-> FALSE, source |-> 0,
                         hyp |-> InitialHyp]]
    /\ UNCHANGED <<disk, world, temper, training, curves, data_config,
                   experiment_data, average_ard_kernel, induce_data,
                   likelihood, pwgf, fixed_svgp_model, svgp_pwgf, trace,
                   written, metrics_run, split_calls, select_calls,
                   optimised, searched, saved_stages, first>>

\* curves/main.py 208-214
CurvesMetricsSVGP ==
    /\ pc = "curves_svgp_metrics"
    /\ curves_results' = [curves_results EXCEPT
                              !["svgp"] = SVGPMetrics(svgp_model)]
    /\ rng' = Draw(rng)
    /\ pc' = "curves_svgp_pwgf"
    /\ UNCHANGED <<disk, world, temper, training, fitted_model, received,
                   data_config, kheap, xheap, experiment_data,
                   average_ard_kernel, induce_data, likelihood, pwgf,
                   fixed_svgp_model, svgp_model, svgp_pwgf, history>>

\* curves/main.py 215-238: kernel=svgp_model.kernel and the detached
\* inducing points, the objects themselves
CurvesSVGPPWGF ==
    /\ pc = "curves_svgp_pwgf"
    /\ \E ok \in BOOLEAN :
        IF ok
        THEN /\ svgp_pwgf' = [kernel |-> svgp_model.kernel,
                              x_induce |-> svgp_model.x_induce,
                              observation_noise |-> CurvesObservationNoise,
                              particles |-> InitialParticles(
                                  xheap[svgp_model.x_induce].n,
                                  experiment_data.n, number_of_particles,
                                  pwgf_seed)]
             /\ rng' = Draw(SetSeed(pwgf_seed))
             /\ pc' = "curves_svgp_pwgf_metrics"
             /\ UNCHANGED aborted_at
        ELSE /\ CurvesAbort("svgp_pwgf_optimisation")
             /\ UNCHANGED <<svgp_pwgf, rng>>
    /\ received' = [received EXCEPT !["pwgf-svgp"] =
                        [given |-> TRUE, copy |-> FALSE,
                         source |-> svgp_model.kernel,
                         hyp |-> kheap[svgp_model.kernel]]]
    /\ UNCHANGED <<disk, world, temper, training, curves, data_config,
                   kheap, xheap, experiment_data, average_ard_kernel,
                   induce_data, likelihood, pwgf, fixed_svgp_model,
                   svgp_model, trace, written, metrics_run, split_calls,
                   select_calls, optimised, searched, saved_stages, first>>

\* curves/main.py 239-246
CurvesMetricsSVGPPWGF ==
    /\ pc = "curves_svgp_pwgf_metrics"
    /\ curves_results' = [curves_results EXCEPT
                              !["pwgf-svgp"] = ParticleMetrics(svgp_pwgf)]
    /\ rng' = Draw(rng)
    /\ pc' = "curves_done"
    /\ UNCHANGED <<disk, world, temper, training, fitted_model, received,
                   data_config, kheap, xheap, experiment_data,
                   average_ard_kernel, induce_data, likelihood, pwgf,
                   fixed_svgp_model, svgp_model, svgp_pwgf, history>>

\* main returned, or an exception left it and the loop over CURVE_FUNCTIONS:
\* the next call of main starts from nothing but the results files
CurvesEndMain ==
    /\ pc \in {"curves_done", "curves_aborted"}
    /\ pc' = "curves_idle"
    /\ data_config' = 0
    /\ kheap' = <<>>
    /\ xheap' = <<>>
    /\ experiment_data' = NoData
    /\ induce_data' = 0
    /\ pwgf' = NoPWGF
    /\ fixed_svgp_model' = NoSVGP
    /\ svgp_model' = NoSVGP
    /\ svgp_pwgf' = NoPWGF
    /\ rng' = NoRng
    /\ fitted_model' = NoModel
    /\ UNCHANGED <<disk, world, temper, training, curves_results, received,
                   average_ard_kernel, likelihood, history>>

CurvesNext ==
    \/ CurvesGetExperimentData
    \/ CurvesOptimiseKernelAndInduceData
    \/ CurvesPWGF
    \/ CurvesMetricsPWGF
    \/ CurvesTrainFixedSVGP
    \/ CurvesMetricsFixedSVGP
    \/ CurvesTrainSVGP
    \/ CurvesMetricsSVGP
    \/ CurvesSVGPPWGF
    \/ CurvesMetricsSVGPPWGF
    \/ CurvesEndMain

\* a process of the curves main
CurvesInit ==
    /\ InitDisk /\ InitWorld /\ InitMemory /\ InitHistory /\ InitTemper
    /\ InitTraining /\ InitCurves /\ InitReceived
    /\ pc = "curves_idle"

\* ------------------------------------------------------------------ claims
Last(q) == q[Len(q)]
\* the run took the load branch of the average-kernel PWGF and the loader
\* has returned
PWGFLoaded == pc = "pwgf_seed" /\ Len(trace) > 0 /\ Last(trace) = "pwgf_load"

\* C1: the PWGF obtained through load_projected_wasserstein_gradient_flow
\* from pwgf_model.pth has the observation noise that was saved in that
\* file, the value written by pwgf_observation_noise_search.
C1_NoiseRoundTrip ==
    PWGFLoaded => pwgf.observation_noise = pwgf_file.observation_noise

\* C2: every persisted PWGF bundle holds particle matrix, observation noise,
\* kernel hyperparameters and inducing points, and the loaded model takes
\* its fields from the bundle alone.
BundleFields == {"particles", "observation_noise", "kernel", "x_induce"}
C2_BundleComplete ==
    /\ pwgf_file.exists => BundleFields \subseteq DOMAIN pwgf_file
    /\ svgp_pwgf_file.exists => BundleFields \subseteq DOMAIN svgp_pwgf_file
    /\ PWGFLoaded =>
          /\ pwgf.particles = pwgf_file.particles
          /\ pwgf.observation_noise = pwgf_file.observation_noise

\* C4: a run that aborts in PWGF training or in the observation-noise search
\* stops there (its only step is the end of the process), has written no
\* PWGF checkpoint and no pwgf metrics, and leaves no pwgf_model.pth, so the
\* next run takes the training branch.
C4_FailFast ==
    [][(pc = "aborted" /\ aborted_at \in {"pwgf_optimisation", "noise_search"})
          => /\ pc' = "idle"
             /\ ~pwgf_file.exists /\ ~pwgf_file'.exists
             /\ "pwgf_model.pth" \notin written
             /\ "pwgf" \notin metrics_run
             /\ ~results["pwgf"].written]_vars
C4_Witness == pc = "aborted" /\ aborted_at = "noise_search"

\* C5: get_experiment_data runs at most once over all runs, every stage
\* after the dataset stage works on the splits saved in
\* experiment_data.pth, also in a run configured with other percentages.
AfterDataset == pc \notin {"idle", "data", "data_save", "done", "aborted"}
C5_SplitOnce ==
    /\ split_calls <= 1
    /\ experiment_data_file.exists => split_calls = 1
    /\ AfterDataset =>
          /\ experiment_data_file.exists
          /\ experiment_data.cfg = experiment_data_file.cfg
          /\ experiment_data.n = experiment_data_file.n
C5_Witness ==
    /\ pc = "kernel"
    /\ "experiment_data.pth" \notin written
    /\ data_config # experiment_data.cfg

\* C6: select_induce_data runs at most once over all runs and before any
\* flow training; the induce data of the run equals inducing_points.pth at
\* every later stage; the average-kernel PWGF holds that very object, the
\* fixed svGP the same locations; the learned svGP trains its own copy and
\* the second PWGF holds a further copy of the learned locations.
AfterInduce ==
    pc \notin {"idle", "data", "data_save", "kernel", "induce",
               "induce_save", "done", "aborted"}
C6_InduceOnce ==
    /\ select_calls <= 1
    /\ (optimised # {} \/ pwgf_file.exists) => induce_data_file.exists
    /\ AfterInduce =>
          /\ induce_data_file.exists
          /\ xheap[induce_data].n = induce_data_file.n
          /\ xheap[induce_data].loc = induce_data_file.loc
    /\ (AfterInduce /\ pwgf # NoPWGF) => pwgf.x_induce = induce_data
    /\ (AfterInduce /\ fixed_svgp_model # NoSVGP) =>
          xheap[fixed_svgp_model.x_induce] = xheap[induce_data]
    /\ (AfterInduce /\ svgp_model # NoSVGP) =>
          svgp_model.x_induce # induce_data
    /\ (AfterInduce /\ svgp_pwgf # NoPWGF) =>
          /\ svgp_pwgf.x_induce \notin {induce_data, svgp_model.x_induce}
          /\ xheap[svgp_pwgf.x_induce] = xheap[svgp_model.x_induce]
C6_Witness ==
    /\ pc = "svgp_pwgf_seed"
    /\ "inducing_points.pth" \notin written
    /\ xheap[svgp_pwgf.x_induce] # xheap[induce_data]

\* C12: the count main passes to the selector is
\* int(induce_data_factor * N^(1/induce_data_power)) of the train size N;
\* with a count of 0 the selector never returns (the run aborts in the
\* induce stage and no inducing_points.pth is written), and a selection that
\* returned holds min(count, N) rows, the full pool when count >= N; the
\* curves main passes the same count to optimise_kernel_and_induce_data.
C12_InduceCountEdges ==
    /\ (experiment_data_file.exists /\ InduceCount(experiment_data_file.n) = 0)
          => /\ select_calls = 0
             /\ ~induce_data_file.exists
             /\ pc \in {"idle", "data", "kernel", "induce", "aborted"}
    /\ pc = "induce_save" =>
          /\ InduceCount(experiment_data.n) >= 1
          /\ xheap[induce_data].n
                = Min(InduceCount(experiment_data.n), experiment_data.n)
          /\ InduceCount(experiment_data.n) >= experiment_data.n
                => xheap[induce_data].n = experiment_data.n
    /\ pc = "curves_pwgf" =>
          /\ InduceCount(experiment_data.n) >= 1
          /\ xheap[induce_data].n
                = Min(InduceCount(experiment_data.n), experiment_data.n)
\* the selector was called with a count of 0 and the run aborted there
C12_Witness ==
    /\ pc = "aborted"
    /\ aborted_at = "induce"
    /\ InduceCount(experiment_data.n) = 0

TransferStages == {"pwgf", "fixed-svgp"}
InCurves ==
    pc \in {"curves_idle", "curves_kernel", "curves_pwgf",
            "curves_pwgf_metrics", "curves_fixed", "curves_fixed_metrics",
            "curves_svgp", "curves_svgp_metrics", "curves_svgp_pwgf",
            "curves_svgp_pwgf_metrics", "curves_done", "curves_aborted"}
\* UCI: no stage changes the averaged kernel, the kernels of the models are
\* objects of their own, and training the second PWGF leaves the learned
\* svGP's kernel as it was
UCIKernelsKept ==
    (~InCurves /\ average_ard_kernel # 0) =>
       /\ kheap[average_ard_kernel] = AverageHyp
       /\ pwgf # NoPWGF =>
             /\ pwgf.kernel # average_ard_kernel
             /\ kheap[pwgf.kernel] = AverageHyp
       /\ fixed_svgp_model # NoSVGP =>
             /\ fixed_svgp_model.kernel \notin {average_ard_kernel, pwgf.kernel}
             /\ kheap[fixed_svgp_model.kernel] = AverageHyp
       /\ svgp_model # NoSVGP =>
             /\ svgp_model.kernel \notin {average_ard_kernel, pwgf.kernel,
                                          fixed_svgp_model.kernel}
             /\ kheap[svgp_model.kernel] = LearnedHyp
       /\ svgp_pwgf # NoPWGF =>
             /\ svgp_pwgf.kernel \notin {average_ard_kernel, pwgf.kernel,
                                         fixed_svgp_model.kernel,
                                         svgp_model.kernel}
             /\ received["pwgf-svgp"].copy
             /\ received["pwgf-svgp"].source = svgp_model.kernel
\* curves: PWGF and the fixed svGP hold the fitted model's kernel itself,
\* and its hyperparameters are the fitted ones before and after each of them
CurvesKernelKept ==
    (InCurves /\ fitted_model # NoModel) =>
       /\ kheap[fitted_model.kernel] = FittedHyp
       /\ \A m \in TransferStages :
             received[m].given =>
                /\ ~received[m].copy
                /\ received[m].source = fitted_model.kernel
                /\ received[m].hyp = FittedHyp
       /\ pwgf # NoPWGF => pwgf.kernel = fitted_model.kernel
       /\ fixed_svgp_model # NoSVGP =>
             fixed_svgp_model.kernel = fitted_model.kernel
       /\ svgp_model # NoSVGP =>
             /\ svgp_model.kernel # fitted_model.kernel
             /\ kheap[svgp_model.kernel] = LearnedHyp
\* UCI: the stage of each model in ms is handed a deepcopy of the averaged
\* kernel
DeepCopyOfAverage(ms) ==
    (~InCurves /\ average_ard_kernel # 0) =>
       \A m \in ms :
          received[m].given =>
             /\ received[m].copy
             /\ received[m].source = average_ard_kernel
             /\ received[m].hyp = AverageHyp

\* C14 as stated: the kernels the other stages use are unchanged after every
\* downstream stage, and in the UCI pipeline each of PWGF training, fixed
\* svGP training and learned svGP training receives its own deep copy of the
\* averaged kernel.
C14_Original ==
    /\ UCIKernelsKept
    /\ CurvesKernelKept
    /\ DeepCopyOfAverage({"pwgf", "fixed-svgp", "svgp"})

\* C14: the kernels the other stages use are unchanged after every
\* downstream stage; in the UCI pipeline PWGF and the fixed svGP each
\* receive their own deep copy of the averaged kernel, the learned svGP a
\* kernel constructed in the call, and the second PWGF a deep copy of the
\* learned svGP's kernel; in the curves pipeline PWGF and the fixed svGP
\* receive the fitted model's kernel itself and leave its hyperparameters
\* as they were.
C14_KernelReadOnly ==
    /\ UCIKernelsKept
    /\ CurvesKernelKept
    /\ DeepCopyOfAverage(TransferStages)
    /\ (~InCurves /\ received["svgp"].given) =>
          /\ ~received["svgp"].copy
          /\ received["svgp"].source = 0
          /\ received["svgp"].hyp = InitialHyp
\* curves: PWGF and the fixed svGP have both finished on the one kernel
\* object of the fitted model
C14_Witness ==
    /\ pc = "curves_fixed_metrics"
    /\ pwgf.kernel = fitted_model.kernel
    /\ fixed_svgp_model.kernel = fitted_model.kernel
    /\ received["fixed-svgp"].hyp = kheap[fitted_model.kernel]

\* the training step of each model checkpoint, as it shows in the trace
TrainingLabel ==
    [pwgf |-> "pwgf_optimisation", fixed |-> "fixed_svgp_training",
     svgp |-> "svgp_training", svgp_pwgf |-> "svgp_pwgf_optimisation"]
\* C15: a step changes none of the six checkpoint files that exists before
\* it, a file is written only by a step before which it did not exist, and
\* while a file exists no step splits the data, selects inducing points or
\* trains that file's model again.
C15_WriteOnce ==
    [][/\ experiment_data_file.exists =>
             /\ experiment_data_file' = experiment_data_file
             /\ split_calls' = split_calls
             /\ "experiment_data.pth" \notin written' \ written
       /\ induce_data_file.exists =>
             /\ induce_data_file' = induce_data_file
             /\ select_calls' = select_calls
             /\ "inducing_points.pth" \notin written' \ written
       /\ pwgf_file.exists =>
             /\ pwgf_file' = pwgf_file
             /\ trace' # Append(trace, TrainingLabel.pwgf)
             /\ "pwgf_model.pth" \notin written' \ written
       /\ fixed_svgp_file.exists =>
             /\ fixed_svgp_file' = fixed_svgp_file
             /\ trace' # Append(trace, TrainingLabel.fixed)
             /\ "fixed_svgp_model.pth" \notin written' \ written
       /\ svgp_file.exists =>
             /\ svgp_file' = svgp_file
             /\ trace' # Append(trace, TrainingLabel.svgp)
             /\ "svgp_model.pth" \notin written' \ written
       /\ svgp_pwgf_file.exists =>
             /\ svgp_pwgf_file' = svgp_pwgf_file
             /\ trace' # Append(trace, TrainingLabel.svgp_pwgf)
             /\ "svgp_pwgf_model.pth" \notin written' \ written]_vars
\* a later run went through every stage with all six files present and
\* wrote none of them
C15_Witness ==
    /\ pc = "done"
    /\ written = {}
    /\ experiment_data_file.exists /\ induce_data_file.exists
    /\ pwgf_file.exists /\ fixed_svgp_file.exists
    /\ svgp_file.exists /\ svgp_pwgf_file.exists

\* C16: at the start of each of the four metric computations the random
\* state is the one set_seed leaves for that model's configured seed
\* (pwgf_config for pwgf and pwgf-svgp, svgp_config for fixed-svgp and
\* svgp), whether the model was loaded or trained, and every results entry
\* was computed from that state.
MetricsSeed ==
    [m \in ModelNames |->
        IF m \in {"pwgf", "pwgf-svgp"} THEN pwgf_seed ELSE svgp_seed]
C16_ReseedBeforeMetrics ==
    /\ pc = "pwgf_metrics" => rng = SetSeed(MetricsSeed["pwgf"])
    /\ pc = "fixed_metrics" => rng = SetSeed(MetricsSeed["fixed-svgp"])
    /\ pc = "svgp_metrics" => rng = SetSeed(MetricsSeed["svgp"])
    /\ pc = "svgp_pwgf_metrics" => rng = SetSeed(MetricsSeed["pwgf-svgp"])
    /\ \A m \in ModelNames :
          results[m].written =>
             /\ results[m].seed = MetricsSeed[m]
             /\ results[m].used = 0
\* a run that loaded the first PWGF and trained the second one is about to
\* compute the second one's metrics
C16_Witness ==
    /\ pc = "svgp_pwgf_metrics"
    /\ \E i \in 1..Len(trace) : trace[i] = "pwgf_load"
    /\ \E i \in 1..Len(trace) : trace[i] = "svgp_pwgf_optimisation"
    /\ results["pwgf"].written

\* C7: the stages a run executes are in pipeline order, and the metrics of a
\* PWGF model are computed only after its particle optimisation and its
\* observation-noise search have completed.
StageRank(stage) ==
    CASE stage = "dataset" -> 1
      [] stage = "kernel" -> 2
      [] stage = "induce" -> 3
      [] stage \in {"pwgf_optimisation", "pwgf_load"} -> 4
      [] stage = "noise_search" -> 5
      [] stage = "pwgf_metrics" -> 6
      [] stage \in {"fixed_svgp_training", "fixed_svgp_load"} -> 7
      [] stage = "fixed_svgp_metrics" -> 8
      [] stage \in {"svgp_training", "svgp_load"} -> 9
      [] stage = "svgp_metrics" -> 10
      [] stage \in {"svgp_pwgf_optimisation", "svgp_pwgf_load"} -> 11
      [] stage = "svgp_pwgf_metrics" -> 12
TraceOrdered ==
    \A i \in 1..Len(trace) : \A j \in 1..Len(trace) :
        i < j => StageRank(trace[i]) < StageRank(trace[j])
C8_Determinism ==
    (pc = "fixed" /\ first.seen /\ data_config = first.cfg) =>
        /\ pwgf.particles = first.particles
        /\ pwgf.observation_noise = first.observation_noise

Next ==
    \/ StartRun
    \/ EndRun
    \/ LoadExperimentData
    \/ GetExperimentData
    \/ SaveExperimentData
    \/ LearnSubsampleGPs
    \/ LoadInduceData
    \/ SelectInduceData
    \/ SaveInduceData
    \/ LoadPWGF
    \/ TrainPWGF
    \/ NoiseSearchPWGF
    \/ SavePWGF
    \/ SetSeedPWGF
    \/ CalculateMetricsPWGF
    \/ LoadFixedSVGP
    \/ TrainFixedSVGP
    \/ SaveFixedSVGP
    \/ SetSeedFixedSVGP
    \/ CalculateMetricsFixedSVGP
    \/ LoadSVGP
    \/ TrainSVGP
    \/ SaveSVGP
    \/ SetSeedSVGP
    \/ CalculateMetricsSVGP
    \/ LoadSVGPPWGF
    \/ TrainSVGPPWGF
    \/ SaveSVGPPWGF
    \/ SetSeedSVGPPWGF
    \/ CalculateMetricsSVGPPWGF

Spec == Init /\ [][Next]_vars

\* a process of either main
PipelinesInit == Init \/ CurvesInit
PipelinesNext == Next \/ CurvesNext
PipelinesSpec == PipelinesInit /\ [][PipelinesNext]_vars

TypeOK == pc \in {"idle", "data", "data_save", "kernel", "induce",
                  "induce_save", "pwgf", "pwgf_search", "pwgf_save",
                  "pwgf_seed", "pwgf_metrics", "fixed", "fixed_save",
                  "fixed_seed", "fixed_metrics", "svgp", "svgp_save",
                  "svgp_seed", "svgp_metrics", "svgp_pwgf", "svgp_pwgf_save",
                  "svgp_pwgf_seed", "svgp_pwgf_metrics", "done", "aborted",
                  "curves_idle", "curves_kernel", "curves_pwgf",
                  "curves_pwgf_metrics", "curves_fixed",
                  "curves_fixed_metrics", "curves_svgp",
                  "curves_svgp_metrics", "curves_svgp_pwgf",
                  "curves_svgp_pwgf_metrics", "curves_done",
                  "curves_aborted"}

\* ----------------------------------------------------------------- GPs
\* inputs are points 1..MaxPoint, targets 0..MaxTarget; a calibration set
\* holds 1..MaxCalibration distinct points, a query 1..MaxQuery distinct
\* points, both listed in increasing order
MaxPoint == 2
MaxTarget == 2
MaxCalibration == 2
MaxQuery == 2
\* fitted base GPs: the constant of the mean, the outputscale of the kernel
MaxGPMean == 1
MaxGPScale == 2

Inputs(n) ==
    UNION {{x \in [1..k -> 1..MaxPoint] :
               \A i \in 1..k : \A j \in 1..k : i < j => x[i] < x[j]} :
           k \in 1..n}
Targets(k) == [1..k -> 0..MaxTarget]
GPs == [m : 0..MaxGPMean, s : 1..MaxGPScale]

\* gp(x) of a fitted ExactGP or svGP in eval mode: the predictive mean
\* vector and covariance matrix at the inputs x
gp_call(gp, x) ==
    [mean |-> [i \in 1..Len(x) |-> gp.m + x[i]],
     covariance_matrix |->
         [i \in 1..Len(x) |-> [j \in 1..Len(x) |->
             gp.s * (IF x[i] = x[j] THEN 2 ELSE 1)]]]

RECURSIVE SumTo(_, _)
SumTo(f, k) == IF k = 0 THEN 0 ELSE f[k] + SumTo(f, k - 1)

\* TemperGP: the scale that makes the squared residuals of the calibration
\* set match the predicted variances
TemperScale(gp, x_calibration, y_calibration) ==
    LET p == gp_call(gp, x_calibration)
        k == Len(x_calibration)
        sq == [i \in 1..k |-> (y_calibration[i] - p.mean[i])
                               * (y_calibration[i] - p.mean[i])]
        var == [i \in 1..k |-> p.covariance_matrix[i][i]]
    IN SumTo(sq, k) \div SumTo(var, k)

\* TemperGP.__init__(gp, x_calibration, y_calibration)
TemperGP(gp, x_calibration, y_calibration) ==
    [constructed |-> TRUE, gp |-> gp, x_calibration |-> x_calibration,
     y_calibration |-> y_calibration,
     scale |-> TemperScale(gp, x_calibration, y_calibration)]

\* TemperGP_call, but the mean is scaled as well
TemperGP_call_ScalesMean(t, x) ==
    LET p == gp_call(t.gp, x)
    IN [valid |-> TRUE, x |-> x, mean |-> [i \in 1..Len(x) |-> t.scale * p.mean[i]],
        covariance_matrix |->
            [i \in 1..Len(x) |-> [j \in 1..Len(x) |->
                t.scale * p.covariance_matrix[i][j]]]]

\* TemperGP_call, but only the diagonal of the covariance is scaled
TemperGP_call_ScalesVariancesOnly(t, x) ==
    LET p == gp_call(t.gp, x)
    IN [valid |-> TRUE, x |-> x, mean |-> p.mean,
        covariance_matrix |->
            [i \in 1..Len(x) |-> [j \in 1..Len(x) |->
                (IF i = j THEN t.scale ELSE 1)
                * p.covariance_matrix[i][j]]]]

\* TemperGP.__call__(x)
TemperGP_call(t, x) ==
    LET p == gp_call(t.gp, x)
    IN [valid |-> TRUE, x |-> x, mean |-> p.mean,
        covariance_matrix |->
            [i \in 1..Len(x) |-> [j \in 1..Len(x) |->
                t.scale * p.covariance_matrix[i][j]]]]

\* temper_gp = TemperGP(gp=gp, x_calibration=..., y_calibration=...)
ConstructTemperGP ==
    /\ ~temper_gp.constructed
    /\ \E gp \in GPs : \E xc \in Inputs(MaxCalibration) : \E yc \in Targets(Len(xc)) :
          temper_gp' = TemperGP(gp, xc, yc)
    /\ UNCHANGED <<disk, world, training, curves, received, pc, memory,
                   history, prediction>>

\* temper_gp(x)
QueryTemperGP ==
    /\ temper_gp.constructed
    /\ \E x \in Inputs(MaxQuery) : prediction' = TemperGP_call(temper_gp, x)
    /\ UNCHANGED <<disk, world, training, curves, received, pc, memory,
                   history, temper_gp>>

TemperInit ==
    /\ InitDisk /\ InitRun /\ InitHistory /\ InitTemper /\ InitTraining
    /\ InitCurves /\ InitReceived
    /\ config = [induce_data_factor |-> 1, induce_data_power |-> 1]
    /\ likelihood_noise = 1
    /\ nll = [c \in observation_noise_lower..observation_noise_upper |-> 0]

TemperNext == ConstructTemperGP \/ QueryTemperGP

TemperSpec == TemperInit /\ [][TemperNext]_vars

\* C9: the mean TemperGP returns at x is the base GP's predictive mean at x.
C9_MeanUnchanged ==
    prediction.valid =>
        prediction.mean = gp_call(temper_gp.gp, prediction.x).mean
C9_Witness ==
    /\ prediction.valid
    /\ temper_gp.scale > 1
    /\ Len(prediction.x) = 2

\* C10: the scale is the one computed at construction from the calibration
\* set, a call never changes it, and the covariance matrix a call returns
\* is the base GP's predictive covariance at x times that scale.
C10_ScaledCovariance ==
    [][/\ temper_gp.constructed => temper_gp'.scale = temper_gp.scale
       /\ temper_gp'.constructed =>
             temper_gp'.scale = TemperScale(temper_gp'.gp,
                                            temper_gp'.x_calibration,
                                            temper_gp'.y_calibration)
       /\ prediction'.valid =>
             \A i \in 1..Len(prediction'.x) : \A j \in 1..Len(prediction'.x) :
                 prediction'.covariance_matrix[i][j] =
                     temper_gp'.scale
                     * gp_call(temper_gp'.gp, prediction'.x)
                           .covariance_matrix[i][j]]_vars
C10_Witness ==
    /\ prediction.valid
    /\ temper_gp.scale > 1
    /\ Len(prediction.x) = 2
    /\ prediction.x[1] # prediction.x[2]

\* ------------------------------------------------ the loader on any bundle
\* rows of a persisted particle matrix, rows of the induce data
MaxParticleRows == 6
MaxInducePoints == 3

\* load_projected_wasserstein_gradient_flow called at main.py 170 on a file
\* that some earlier training wrote
LoaderInit ==
    /\ InitTemper /\ InitTraining /\ InitCurves /\ InitReceived
    /\ \E c \in DataConfigs :
          /\ experiment_data = [cfg |-> c, n |-> TrainSize(c)]
          /\ experiment_data_file = [exists |-> TRUE, cfg |-> c,
                                     n |-> TrainSize(c)]
          /\ data_config = c
    /\ \E k \in 1..MaxInducePoints :
          /\ xheap = <<[n |-> k, loc |-> 0]>>
          /\ induce_data_file = [exists |-> TRUE, n |-> k, loc |-> 0]
    /\ induce_data = 1
    /\ pwgf_file \in [exists : {TRUE},
                      particles : [rows : 1..MaxParticleRows,
                                   cols : {number_of_particles},
                                   val : {pwgf_seed}],
                      observation_noise : Candidates]
    /\ fixed_svgp_file = NoSVGPFile
    /\ svgp_file = NoSVGPFile
    /\ svgp_pwgf_file = NoPWGFFile
    /\ results = [m \in ModelNames |-> NoResult]
    /\ config = [induce_data_factor |-> 1, induce_data_power |-> 1]
    /\ likelihood_noise \in LikelihoodNoises
    /\ likelihood = likelihood_noise
    /\ nll = [c \in observation_noise_lower..observation_noise_upper |-> 0]
    /\ pc = "pwgf"
    /\ kheap = <<AverageHyp>>
    /\ average_ard_kernel = 1
    /\ pwgf = NoPWGF
    /\ fixed_svgp_model = NoSVGP
    /\ svgp_model = NoSVGP
    /\ svgp_pwgf = NoPWGF
    /\ rng = Draw(SetSeed(induce_seed))
    /\ trace = <<"dataset", "kernel", "induce">>
    /\ written = {}
    /\ metrics_run = {}
    /\ aborted_at = ""
    /\ split_calls = 1
    /\ select_calls = 1
    /\ optimised = {}
    /\ searched = {}
    /\ saved_stages = [m \in {"pwgf", "pwgf-svgp"} |->
                          [optimised |-> m = "pwgf", searched |-> m = "pwgf"]]
    /\ first = NoFirst

LoaderNext == LoadPWGF \/ SetSeedPWGF

LoaderSpec == LoaderInit /\ [][LoaderNext]_vars

\* C3: a PWGF instance has one particle row per point of the induce and
\* train sets it was constructed with; the loader returns no model for a
\* persisted particle matrix of another row count.
C3_ParticleCount ==
    pwgf # NoPWGF =>
        pwgf.particles.rows = xheap[pwgf.x_induce].n + experiment_data.n

\* --------------------------------------------- the PWGF epoch loop (C11)
\* train_projected_wasserstein_gradient_flow(number_of_epochs=E, ...): the
\* runner is called at main.py 179-198; its loop follows the design's
\* "Termination: fixed number of epochs (no convergence detection)".
MaxEpochs == 3
\* the size of an epoch's particle update; 0 is an epoch whose learning-rate
\* search found no improvement
MaxUpdateMagnitude == 2

\* the call is entered with number_of_epochs=pwgf_config["number_of_epochs"]
TrainingInit ==
    /\ InitDisk /\ InitRun /\ InitHistory /\ InitTemper
    /\ InitCurves /\ InitReceived
    /\ config = [induce_data_factor |-> 1, induce_data_power |-> 1]
    /\ likelihood_noise = 1
    /\ nll = [c \in observation_noise_lower..observation_noise_upper |-> 0]
    /\ number_of_epochs \in 0..MaxEpochs
    /\ epoch = 0
    /\ train_pc = "running"
    /\ update_magnitudes = <<>>

\* one epoch: the learning-rate search and the one particle update it picks;
\* an update of magnitude 0 does not end the loop
EpochUpdate ==
    /\ train_pc = "running"
    /\ epoch < number_of_epochs
    /\ \E magnitude \in 0..MaxUpdateMagnitude :
          update_magnitudes' = Append(update_magnitudes, magnitude)
    /\ epoch' = epoch + 1
    /\ UNCHANGED <<disk, world, temper, curves, received, pc, memory, history,
                   number_of_epochs, train_pc>>

\* a configuration error on entry or a numerical error in an epoch is
\* raised to the caller
TrainingError ==
    /\ train_pc = "running"
    /\ train_pc' = "failed"
    /\ UNCHANGED <<disk, world, temper, curves, received, pc, memory, history,
                   number_of_epochs, epoch, update_magnitudes>>

ReturnPWGF_StopsOnConvergence ==
    /\ train_pc = "running"
    /\ \/ epoch = number_of_epochs
       \/ epoch > 0 /\ update_magnitudes[epoch] = 0
    /\ train_pc' = "returned"
    /\ UNCHANGED <<disk, world, temper, curves, received, pc, memory, history,
                   number_of_epochs, epoch, update_magnitudes>>

\* the loop is over: the trained model is returned
ReturnPWGF ==
    /\ train_pc = "running"
    /\ epoch = number_of_epochs
    /\ train_pc' = "returned"
    /\ UNCHANGED <<disk, world, temper, curves, received, pc, memory, history,
                   number_of_epochs, epoch, update_magnitudes>>

TrainingNext == EpochUpdate \/ TrainingError \/ ReturnPWGF

\* execution is sequential and blocking: a step that can be taken is taken
TrainingSpec == TrainingInit /\ [][TrainingNext]_vars /\ WF_vars(TrainingNext)

\* C11: a training run with number_of_epochs = E never performs more than E
\* epoch updates, returns only after exactly E of them (whatever their
\* magnitudes), and every run eventually returns or fails.
C11_Termination ==
    /\ [](/\ epoch <= number_of_epochs
          /\ Len(update_magnitudes) = epoch
          /\ train_pc = "returned" => epoch = number_of_epochs)
    /\ <>(train_pc \in {"returned", "failed"})

\* a run of MaxEpochs epochs whose first update had magnitude 0 and that
\* went on to the last epoch and returned
C11_Witness ==
    /\ train_pc = "returned"
    /\ number_of_epochs = MaxEpochs
    /\ epoch = MaxEpochs
    /\ update_magnitudes[1] = 0

====
